---- MODULE Spec2Model ----
(***************************************************************************)
(* teleop_twist_joy: the joystick-to-Twist node with the autorun ramp.     *)
(*                                                                         *)
(* State: the members of TeleopTwistJoy::Impl (configuration and the       *)
(* controller fields autorun_flag, autorun_buffer, speed_x_max,            *)
(* sent_disable_msg), plus what one callback hands to its collaborators:   *)
(* the messages it published, the branch it took, the result it returned.  *)
(* History variables record what the properties speak about and the code   *)
(* does not keep: the batch param_callback was given, the last command     *)
(* published, how many samples were delivered, the run of autorun samples   *)
(* behind the ramp.                                                        *)
(*                                                                         *)
(* Numbers: double and float_t values are fixed-point integers, One = 1.0. *)
(* The input sets below hold only values whose products and tenths are     *)
(* exact in that representation; binary floating-point rounding of         *)
(* float_t is not represented.                                             *)
(*                                                                         *)
(* Indexing: C++ index i of a vector is element i + 1 of the sequence.     *)
(* A read outside the vector is undefined behaviour: the callback either   *)
(* ends the process or goes on with whatever the memory held.              *)
(***************************************************************************)
EXTENDS Integers, Sequences, FiniteSets, TLC

VARIABLES
  require_enable_button,        \* bool
  enable_button,                \* int64_t
  enable_turbo_button,          \* int64_t
  enable_autorun_button,        \* int64_t
  axis_linear_map,              \* x, y, z -> axis index
  axis_angular_map,             \* yaw, pitch, roll -> axis index
  axis_angular_adjustment_map,  \* yaw, pitch, roll -> axis index
  scale_linear_map,             \* mode -> x, y, z -> scale
  scale_angular_map,            \* mode -> yaw, pitch, roll -> scale
  autorun_flag,                 \* bool
  autorun_buffer,               \* int64_t, last autorun button value seen
  speed_x_max,                  \* float_t, the ramped forward speed
  sent_disable_msg,             \* bool
  joy_msg,                      \* the sample the last joyCallback was given
  cmd_vel_pub,                  \* what the last joyCallback published
  last_pub,                     \* history: the last command published
  which_map,                    \* the branch the last joyCallback took
  pending,                      \* a joyCallback overtaken inside sendCmdVelMsg
  oob,                          \* the last joyCallback read outside a vector
  terminated,                   \* the process was ended by such a read
  result,                       \* what the last param_callback returned
  rejected_at,                  \* history: where its first loop returned, or 0
  mismatched,                   \* history: the ill-typed names of its batch
  returned,                     \* a getVal call made on its own, and its value
  delivered,                    \* parity of the number of samples delivered
  samples,                      \* history: samples delivered: 0, 1, or 2 for more
  run_len,                      \* history: autorun samples since the ramp was 0
  run_dx                        \* history: their common scaled forward input

config == <<require_enable_button, enable_button, enable_turbo_button,
            enable_autorun_button, axis_linear_map, axis_angular_map,
            axis_angular_adjustment_map, scale_linear_map, scale_angular_map>>

controller == <<autorun_flag, autorun_buffer, speed_x_max, sent_disable_msg>>

vars == <<config, controller, joy_msg, cmd_vel_pub, last_pub, which_map,
          pending, oob,
          terminated, result, rejected_at, mismatched, returned, delivered,
          samples, run_len, run_dx>>

----------------------------------------------------------------------------
(* Numbers *)

One == 1000

RampDivisor == 10

\* The longest run of autorun samples the history variables follow
MaxRun == 12

Mul(a, b) == (a * b) \div One

Tenth(a) == IF a >= 0 THEN a \div RampDivisor ELSE -((-a) \div RampDivisor)

Abs(a) == IF a >= 0 THEN a ELSE -a

Min(a, b) == IF a <= b THEN a ELSE b

Max(a, b) == IF a >= b THEN a ELSE b

----------------------------------------------------------------------------
(* Messages *)

LinearNames == {"x", "y", "z"}

AngularNames == {"yaw", "pitch", "roll"}

MapNames == {"normal", "turbo", "autorun"}

Twist(lx, ly, lz, ax, ay, az) ==
  [linear |-> [x |-> lx, y |-> ly, z |-> lz],
   angular |-> [x |-> ax, y |-> ay, z |-> az]]

ZeroTwist == Twist(0, 0, 0, 0, 0, 0)

NoJoy == [axes |-> <<>>, buttons |-> <<>>]

\* The last command published, after a callback that published these
\* messages: "none" before the first, then "zero" for an all-zero command
\* and "motion" for any other
LastPublished(published, last) ==
  IF published = <<>> THEN last
  ELSE IF published[Len(published)] = ZeroTwist THEN "zero"
  ELSE "motion"

\* No joyCallback is inside sendCmdVelMsg
NotPending == [active |-> FALSE]

\* No getVal call has been made on its own
NoCall == [called |-> FALSE]

----------------------------------------------------------------------------
(* Parameters: the constructor's declarations and param_callback *)

intparams ==
  {"axis_linear.x", "axis_linear.y", "axis_linear.z",
   "axis_angular.yaw", "axis_angular.pitch", "axis_angular.roll",
   "axis_angular_adjustment.yaw", "axis_angular_adjustment.pitch",
   "axis_angular_adjustment.roll",
   "enable_button", "enable_turbo_button", "enable_autorun_button"}

doubleparams ==
  {"scale_linear.x", "scale_linear.y", "scale_linear.z",
   "scale_linear_turbo.x", "scale_linear_turbo.y", "scale_linear_turbo.z",
   "scale_linear_autorun.x", "scale_linear_autorun.y", "scale_linear_autorun.z",
   "scale_angular.yaw", "scale_angular.pitch", "scale_angular.roll",
   "scale_angular_turbo.yaw", "scale_angular_turbo.pitch",
   "scale_angular_turbo.roll",
   "scale_angular_autorun.yaw", "scale_angular_autorun.pitch",
   "scale_angular_autorun.roll"}

boolparams == {"require_enable_button"}

\* The parameter name of one entry of a map: prefix.field
ParamName(prefix, field) == prefix \o "." \o field

\* The parameter prefix of the scale table of one mode
ScalePrefix(base, map) ==
  IF map = "normal" THEN base ELSE base \o "_" \o map

\* A rclcpp::Parameter: its name, its type and its value (a bool as 0 or 1)
Parameter(n, t, v) == [name |-> n, type |-> t, value |-> v]

\* declare_parameter: the launch override when there is one, else the default
Declare(overrides, name, default) ==
  IF name \in DOMAIN overrides THEN overrides[name] ELSE default

default_linear_map == [x |-> 5, y |-> -1, z |-> -1]

default_angular_map == [yaw |-> 2, pitch |-> -1, roll |-> -1]

default_angular_adjustment_map == [yaw |-> 3, pitch |-> -1, roll |-> -1]

default_scale_linear_map ==
  [normal  |-> [x |-> One \div 2, y |-> 0, z |-> 0],
   turbo   |-> [x |-> One, y |-> 0, z |-> 0],
   autorun |-> [x |-> One, y |-> 0, z |-> 0]]

default_scale_angular_map ==
  [normal  |-> [yaw |-> One \div 2, pitch |-> 0, roll |-> 0],
   turbo   |-> [yaw |-> One, pitch |-> 0, roll |-> 0],
   autorun |-> [yaw |-> One, pitch |-> 0, roll |-> 0]]

\* Constructor leaving the controller as after a disabled sample with the
\* autorun button held: autorun_buffer = 1 and sent_disable_msg = TRUE
ConstructorStopped(overrides) ==
  /\ require_enable_button = (Declare(overrides, "require_enable_button", 1) # 0)
  /\ autorun_flag = FALSE
  /\ enable_button = Declare(overrides, "enable_button", 5)
  /\ enable_turbo_button = Declare(overrides, "enable_turbo_button", -1)
  /\ enable_autorun_button = Declare(overrides, "enable_autorun_button", -1)
  /\ autorun_buffer = 1
  /\ axis_linear_map =
       [f \in LinearNames |->
          Declare(overrides, ParamName("axis_linear", f), default_linear_map[f])]
  /\ axis_angular_map =
       [f \in AngularNames |->
          Declare(overrides, ParamName("axis_angular", f), default_angular_map[f])]
  /\ axis_angular_adjustment_map =
       [f \in AngularNames |->
          Declare(overrides, ParamName("axis_angular_adjustment", f),
                  default_angular_adjustment_map[f])]
  /\ scale_linear_map =
       [m \in MapNames |-> [f \in LinearNames |->
          Declare(overrides, ParamName(ScalePrefix("scale_linear", m), f),
                  default_scale_linear_map[m][f])]]
  /\ scale_angular_map =
       [m \in MapNames |-> [f \in AngularNames |->
          Declare(overrides, ParamName(ScalePrefix("scale_angular", m), f),
                  default_scale_angular_map[m][f])]]
  /\ speed_x_max = 0
  /\ sent_disable_msg = TRUE
  /\ joy_msg = NoJoy
  /\ cmd_vel_pub = <<>>
  /\ last_pub = "none"
  /\ which_map = "none"
  /\ pending = NotPending
  /\ oob = FALSE
  /\ terminated = FALSE
  /\ result = [successful |-> TRUE, reason |-> <<>>]
  /\ rejected_at = 0
  /\ mismatched = {}
  /\ returned = NoCall
  /\ delivered = 0
  /\ samples = 0
  /\ run_len = 0
  /\ run_dx = 0

\* The state the constructor leaves, given the launch's parameter overrides
Constructor(overrides) ==
  /\ require_enable_button = (Declare(overrides, "require_enable_button", 1) # 0)
  /\ autorun_flag = FALSE
  /\ enable_button = Declare(overrides, "enable_button", 5)
  /\ enable_turbo_button = Declare(overrides, "enable_turbo_button", -1)
  /\ enable_autorun_button = Declare(overrides, "enable_autorun_button", -1)
  /\ autorun_buffer = 0
  /\ axis_linear_map =
       [f \in LinearNames |->
          Declare(overrides, ParamName("axis_linear", f), default_linear_map[f])]
  /\ axis_angular_map =
       [f \in AngularNames |->
          Declare(overrides, ParamName("axis_angular", f), default_angular_map[f])]
  /\ axis_angular_adjustment_map =
       [f \in AngularNames |->
          Declare(overrides, ParamName("axis_angular_adjustment", f),
                  default_angular_adjustment_map[f])]
  /\ scale_linear_map =
       [m \in MapNames |-> [f \in LinearNames |->
          Declare(overrides, ParamName(ScalePrefix("scale_linear", m), f),
                  default_scale_linear_map[m][f])]]
  /\ scale_angular_map =
       [m \in MapNames |-> [f \in AngularNames |->
          Declare(overrides, ParamName(ScalePrefix("scale_angular", m), f),
                  default_scale_angular_map[m][f])]]
  /\ speed_x_max = 0
  /\ sent_disable_msg = FALSE
  /\ joy_msg = NoJoy
  /\ cmd_vel_pub = <<>>
  /\ last_pub = "none"
  /\ which_map = "none"
  /\ pending = NotPending
  /\ oob = FALSE
  /\ terminated = FALSE
  /\ result = [successful |-> TRUE, reason |-> <<>>]
  /\ rejected_at = 0
  /\ mismatched = {}
  /\ returned = NoCall
  /\ delivered = 0
  /\ samples = 0
  /\ run_len = 0
  /\ run_dx = 0

\* The type param_callback's first loop expects for a name ("" for any other name)
ExpectedType(name) ==
  IF name \in intparams THEN "integer"
  ELSE IF name \in doubleparams THEN "double"
  ELSE IF name \in boolparams THEN "bool"
  ELSE ""

TypeMismatch(p) == ExpectedType(p.name) # "" /\ p.type # ExpectedType(p.name)

\* FirstMismatch looking at the first parameter of the batch only
HeadMismatch(parameters) ==
  IF parameters # <<>> /\ TypeMismatch(parameters[1]) THEN 1 ELSE 0

\* The first loop: the index of the parameter it returns at, 0 when it passes
FirstMismatch(parameters) ==
  IF \E i \in DOMAIN parameters : TypeMismatch(parameters[i])
  THEN CHOOSE i \in DOMAIN parameters :
         /\ TypeMismatch(parameters[i])
         /\ \A j \in 1..(i - 1) : ~TypeMismatch(parameters[j])
  ELSE 0

\* The second loop, for one name: the value of the last parameter of that name
Assigned(parameters, name, old) ==
  LET at == {i \in DOMAIN parameters : parameters[i].name = name}
  IN  IF at = {} THEN old
      ELSE parameters[CHOOSE i \in at : \A j \in at : j <= i].value

\* param_callback clearing the ramp, and storing no parameter
param_callbackClearing(parameters) ==
  /\ ~terminated
  /\ speed_x_max' = 0
  /\ UNCHANGED <<config, autorun_flag, autorun_buffer, sent_disable_msg,
                 joy_msg, cmd_vel_pub, last_pub, which_map, pending, oob,
                 terminated, result, rejected_at, mismatched, returned,
                 delivered, samples, run_len, run_dx>>

param_callback(parameters) ==
  /\ ~terminated
  /\ LET bad == FirstMismatch(parameters)
     IN  /\ rejected_at' = bad
         /\ pending' = IF pending.active /\ bad = 0
                       THEN [pending EXCEPT !.overtaken = Min(@ + 1, 2)]
                       ELSE pending
         /\ mismatched' = {parameters[i].name :
                             i \in {j \in DOMAIN parameters :
                                      TypeMismatch(parameters[j])}}
         /\ IF bad # 0
            THEN /\ result' = [successful |-> FALSE,
                               reason |-> <<ExpectedType(parameters[bad].name),
                                            parameters[bad].name>>]
                 /\ UNCHANGED <<config, run_len, run_dx>>
            ELSE /\ result' = [successful |-> TRUE, reason |-> <<>>]
                 /\ require_enable_button' =
                      (Assigned(parameters, "require_enable_button",
                                IF require_enable_button THEN 1 ELSE 0) # 0)
                 /\ enable_button' = Assigned(parameters, "enable_button", enable_button)
                 /\ enable_turbo_button' =
                      Assigned(parameters, "enable_turbo_button", enable_turbo_button)
                 /\ enable_autorun_button' =
                      Assigned(parameters, "enable_autorun_button", enable_autorun_button)
                 /\ axis_linear_map' =
                      [f \in LinearNames |->
                         Assigned(parameters, ParamName("axis_linear", f),
                                  axis_linear_map[f])]
                 /\ axis_angular_map' =
                      [f \in AngularNames |->
                         Assigned(parameters, ParamName("axis_angular", f),
                                  axis_angular_map[f])]
                 /\ axis_angular_adjustment_map' =
                      [f \in AngularNames |->
                         Assigned(parameters, ParamName("axis_angular_adjustment", f),
                                  axis_angular_adjustment_map[f])]
                 /\ scale_linear_map' =
                      [m \in MapNames |-> [f \in LinearNames |->
                         Assigned(parameters,
                                  ParamName(ScalePrefix("scale_linear", m), f),
                                  scale_linear_map[m][f])]]
                 /\ scale_angular_map' =
                      [m \in MapNames |-> [f \in AngularNames |->
                         Assigned(parameters,
                                  ParamName(ScalePrefix("scale_angular", m), f),
                                  scale_angular_map[m][f])]]
                 /\ run_len' = 0
                 /\ run_dx' = 0
  /\ UNCHANGED <<controller, joy_msg, cmd_vel_pub, last_pub, which_map, oob,
                 terminated, returned, delivered, samples>>

----------------------------------------------------------------------------
(* getVal and sendCmdVelMsg *)

\* What one callback's out-of-range reads give: the process is ended, or it
\* goes on with the button value and the axis value the memory held.
Undefined(c, b, a) == [crash |-> c, button |-> b, axis |-> a]

NoUndefined == Undefined(FALSE, 0, 0)

\* getVal passes its four guards and then reads axes at a negative index
getValReadsOutside(joy_msg_, axis_map, scale_map, fieldname) ==
  /\ fieldname \in DOMAIN axis_map
  /\ axis_map[fieldname] # -1
  /\ fieldname \in DOMAIN scale_map
  /\ Len(joy_msg_.axes) > axis_map[fieldname]
  /\ axis_map[fieldname] < 0

\* getVal without the multiplication by the scale
getValRaw(joy_msg_, axis_map, scale_map, fieldname, held) ==
  IF \/ fieldname \notin DOMAIN axis_map
     \/ axis_map[fieldname] = -1
     \/ fieldname \notin DOMAIN scale_map
     \/ Len(joy_msg_.axes) <= axis_map[fieldname]
  THEN 0
  ELSE IF axis_map[fieldname] < 0 THEN held
       ELSE joy_msg_.axes[axis_map[fieldname] + 1]

\* getVal; held is the value an out-of-range read finds
getVal(joy_msg_, axis_map, scale_map, fieldname, held) ==
  IF \/ fieldname \notin DOMAIN axis_map
     \/ axis_map[fieldname] = -1
     \/ fieldname \notin DOMAIN scale_map
     \/ Len(joy_msg_.axes) <= axis_map[fieldname]
  THEN 0
  ELSE Mul(IF axis_map[fieldname] < 0 THEN held
           ELSE joy_msg_.axes[axis_map[fieldname] + 1],
           scale_map[fieldname])

\* One call of getVal from outside the callbacks: it has const arguments and
\* no access to the node, so the node's members stay as they are
getValCall(joy_msg_, axis_map, scale_map, fieldname, ub) ==
  LET outside == getValReadsOutside(joy_msg_, axis_map, scale_map, fieldname)
  IN  /\ ~terminated
      /\ ~outside => ub = NoUndefined
      /\ terminated' = ub.crash
      /\ returned' =
           [called |-> TRUE, joy_msg |-> joy_msg_, axis_map |-> axis_map,
            scale_map |-> scale_map, fieldname |-> fieldname,
            outside |-> outside,
            value |-> getVal(joy_msg_, axis_map, scale_map, fieldname, ub.axis)]
      /\ UNCHANGED <<config, controller, joy_msg, cmd_vel_pub, last_pub,
                     which_map, pending, oob, result, rejected_at, mismatched, delivered, samples, run_len,
                     run_dx>>

\* Limit without its second assignment
LimitAbove(value, limit) == IF value > limit THEN limit ELSE value

\* The two conditional assignments that limit a value to the limit
Limit(value, limit) ==
  LET upper == IF value > limit THEN limit ELSE value
  IN  IF upper < -limit THEN -limit ELSE upper

\* RampSpeed taking the tenth of the input for the speed, without adding
RampSpeedDirect(speed, speed_x_temporary, limit) ==
  Limit(Tenth(speed_x_temporary), limit)

\* RampSpeed adding the whole input instead of its tenth
RampSpeedWhole(speed, speed_x_temporary, limit) ==
  Limit(speed + speed_x_temporary, limit)

\* speed_x_max after the autorun branch of sendCmdVelMsg
RampSpeed(speed, speed_x_temporary, limit) ==
  Limit(speed + Tenth(speed_x_temporary), limit)

\* AutorunYaw without the limit
AutorunYawSum(speed_yaw_temporary, joystick, limit) ==
  speed_yaw_temporary + joystick

\* The yaw the autorun branch of sendCmdVelMsg publishes
AutorunYaw(speed_yaw_temporary, joystick, limit) ==
  Limit(speed_yaw_temporary + joystick, limit)

\* sendCmdVelMsg, with autorun_flag = flag and speed_x_max = speed on entry:
\* the message it publishes and the speed_x_max it leaves
sendCmdVelMsg(joy_msg_, map, flag, speed, held) ==
  LET speed_x_temporary ==
        getVal(joy_msg_, axis_linear_map, scale_linear_map[map], "x", held)
      speed_yaw_temporary ==
        getVal(joy_msg_, axis_angular_map, scale_angular_map[map], "yaw", held)
      ramp ==
        RampSpeed(speed, speed_x_temporary,
                  Mul(One, scale_linear_map["autorun"]["x"]))
      joystick ==
        getVal(joy_msg_, axis_angular_adjustment_map, scale_angular_map[map],
               "yaw", held)
      sum ==
        AutorunYaw(speed_yaw_temporary, joystick,
                   Mul(One, scale_angular_map["autorun"]["yaw"]))
  IN  [msg |->
         Twist(IF flag THEN ramp ELSE speed_x_temporary,
               getVal(joy_msg_, axis_linear_map, scale_linear_map[map], "y", held),
               getVal(joy_msg_, axis_linear_map, scale_linear_map[map], "z", held),
               getVal(joy_msg_, axis_angular_map, scale_angular_map[map], "roll", held),
               getVal(joy_msg_, axis_angular_map, scale_angular_map[map], "pitch", held),
               IF flag THEN sum ELSE speed_yaw_temporary),
       speed_x_max |-> IF flag THEN ramp ELSE speed]

\* sendCmdVelMsg reads outside joy_msg->axes
sendCmdVelMsgReadsOutside(joy_msg_, map, flag) ==
  \/ \E f \in LinearNames :
       getValReadsOutside(joy_msg_, axis_linear_map, scale_linear_map[map], f)
  \/ \E f \in AngularNames :
       getValReadsOutside(joy_msg_, axis_angular_map, scale_angular_map[map], f)
  \/ /\ flag
     /\ getValReadsOutside(joy_msg_, axis_angular_adjustment_map,
                           scale_angular_map[map], "yaw")

----------------------------------------------------------------------------
(* joyCallback *)

\* The guard of the edge detection: the autorun button is configured and present
AutorunButtonPresent(joy_msg_) ==
  enable_autorun_button >= 0 /\ Len(joy_msg_.buttons) > enable_autorun_button

\* Rising taking any change of the value for an edge
Changed(autorun_button, buffer) == autorun_button - buffer # 0

\* The edge test on the raw button value
Rising(autorun_button, buffer) == autorun_button - buffer > 0

\* autorun_flag after the edge detection
FlagAfterEdge(joy_msg_) ==
  IF /\ AutorunButtonPresent(joy_msg_)
     /\ Rising(joy_msg_.buttons[enable_autorun_button + 1], autorun_buffer)
  THEN ~autorun_flag
  ELSE autorun_flag

\* autorun_buffer after the edge detection
BufferAfterEdge(joy_msg_) ==
  IF AutorunButtonPresent(joy_msg_)
  THEN joy_msg_.buttons[enable_autorun_button + 1]
  ELSE autorun_buffer

\* The log line reads buttons[enable_autorun_button] without a guard
LogReadsOutside(joy_msg_) ==
  enable_autorun_button < 0 \/ Len(joy_msg_.buttons) <= enable_autorun_button

\* The turbo condition
TurboPressed(joy_msg_) ==
  /\ enable_turbo_button >= 0
  /\ Len(joy_msg_.buttons) > enable_turbo_button
  /\ joy_msg_.buttons[enable_turbo_button + 1] # 0

\* The enable condition is reached and reads buttons at a negative index
EnableReadsOutside(joy_msg_) ==
  /\ ~FlagAfterEdge(joy_msg_)
  /\ ~TurboPressed(joy_msg_)
  /\ require_enable_button
  /\ Len(joy_msg_.buttons) > enable_button
  /\ enable_button < 0

\* The enable condition; held is the value an out-of-range read finds
EnablePressed(joy_msg_, held) ==
  \/ ~require_enable_button
  \/ /\ Len(joy_msg_.buttons) > enable_button
     /\ (IF enable_button < 0 THEN held
         ELSE joy_msg_.buttons[enable_button + 1]) # 0

\* The branch of the if / else-if chain that is taken
Resolve(flag, turbo, enable) ==
  IF flag THEN "autorun"
  ELSE IF turbo THEN "turbo"
  ELSE IF enable THEN "normal"
  ELSE "disabled"

\* ResetSpeed without the reset
KeepSpeed(flag, speed) == speed

\* speed_x_max after the reset that precedes the branches
ResetSpeed(flag, speed) == IF ~flag THEN 0 ELSE speed

\* StopOnce publishing nothing
StopNever(sent) == <<>>

\* StopOnce without the test of sent_disable_msg
StopAlways(sent) == <<ZeroTwist>>

\* The else branch: what it publishes when sent_disable_msg = sent on entry
StopOnce(sent) == IF ~sent THEN <<ZeroTwist>> ELSE <<>>

joyCallback(joy_msg_, ub) ==
  LET flag == FlagAfterEdge(joy_msg_)
      speed == ResetSpeed(flag, speed_x_max)
      map == Resolve(flag, TurboPressed(joy_msg_), EnablePressed(joy_msg_, ub.button))
      outside ==
        \/ LogReadsOutside(joy_msg_)
        \/ EnableReadsOutside(joy_msg_)
        \/ map # "disabled" /\ sendCmdVelMsgReadsOutside(joy_msg_, map, flag)
      sent == sendCmdVelMsg(joy_msg_, map, flag, speed, ub.axis)
      dx == getVal(joy_msg_, axis_linear_map, scale_linear_map["autorun"], "x", ub.axis)
  IN  /\ ~terminated
      /\ ~outside => ub = NoUndefined
      /\ joy_msg' = joy_msg_
      /\ delivered' = 1 - delivered
      /\ samples' = Min(samples + 1, 2)
      /\ oob' = outside
      /\ UNCHANGED <<config, result, pending, rejected_at, mismatched, returned>>
      /\ IF ub.crash
         THEN /\ terminated' = TRUE
              /\ autorun_flag' = flag
              /\ autorun_buffer' = BufferAfterEdge(joy_msg_)
              /\ cmd_vel_pub' = <<>>
              /\ which_map' = "none"
              /\ UNCHANGED <<speed_x_max, sent_disable_msg, run_len, run_dx>>
         ELSE /\ terminated' = FALSE
              /\ autorun_flag' = flag
              /\ autorun_buffer' = BufferAfterEdge(joy_msg_)
              /\ which_map' = map
              /\ IF map # "disabled"
                 THEN /\ cmd_vel_pub' = <<sent.msg>>
                      /\ speed_x_max' = sent.speed_x_max
                      /\ sent_disable_msg' = FALSE
                 ELSE /\ cmd_vel_pub' = StopOnce(sent_disable_msg)
                      /\ speed_x_max' = speed
                      /\ sent_disable_msg' = TRUE
              /\ IF ~flag \/ run_len >= MaxRun THEN run_len' = 0 /\ run_dx' = 0
                 ELSE IF speed_x_max = 0 THEN run_len' = 1 /\ run_dx' = dx
                 ELSE IF run_len > 0 /\ run_dx = dx
                      THEN run_len' = run_len + 1 /\ run_dx' = dx
                 ELSE run_len' = 0 /\ run_dx' = 0
      /\ last_pub' = LastPublished(cmd_vel_pub', last_pub)

----------------------------------------------------------------------------
(* joyCallback overtaken by param_callback. joyCallback takes no copy of the
   configuration and holds no lock: every statement reads the members that
   param_callback assigns. A param_callback running on another thread can
   therefore come between any two of its statements; the two actions below
   keep one such place, between the two reads at the top of sendCmdVelMsg
   and the rest of it. *)

\* sendCmdVelMsg after its first two statements, which left
\* speed_x_temporary and speed_yaw_temporary
sendCmdVelMsgRest(joy_msg_, map, flag, speed, speed_x_temporary, speed_yaw_temporary, held) ==
  LET ramp ==
        RampSpeed(speed, speed_x_temporary,
                  Mul(One, scale_linear_map["autorun"]["x"]))
      joystick ==
        getVal(joy_msg_, axis_angular_adjustment_map, scale_angular_map[map],
               "yaw", held)
      sum ==
        AutorunYaw(speed_yaw_temporary, joystick,
                   Mul(One, scale_angular_map["autorun"]["yaw"]))
  IN  [msg |->
         Twist(IF flag THEN ramp ELSE speed_x_temporary,
               getVal(joy_msg_, axis_linear_map, scale_linear_map[map], "y", held),
               getVal(joy_msg_, axis_linear_map, scale_linear_map[map], "z", held),
               getVal(joy_msg_, axis_angular_map, scale_angular_map[map], "roll", held),
               getVal(joy_msg_, axis_angular_map, scale_angular_map[map], "pitch", held),
               IF flag THEN sum ELSE speed_yaw_temporary),
       speed_x_max |-> IF flag THEN ramp ELSE speed]

\* joyCallback up to the second statement of sendCmdVelMsg; in the else
\* branch, which calls no sendCmdVelMsg, up to its end
joyCallbackEnter(joy_msg_, ub) ==
  LET flag == FlagAfterEdge(joy_msg_)
      speed == ResetSpeed(flag, speed_x_max)
      map == Resolve(flag, TurboPressed(joy_msg_), EnablePressed(joy_msg_, ub.button))
      outside ==
        \/ LogReadsOutside(joy_msg_)
        \/ EnableReadsOutside(joy_msg_)
        \/ /\ map # "disabled"
           /\ \/ getValReadsOutside(joy_msg_, axis_linear_map,
                                    scale_linear_map[map], "x")
              \/ getValReadsOutside(joy_msg_, axis_angular_map,
                                    scale_angular_map[map], "yaw")
  IN  /\ ~terminated
      /\ ~pending.active
      /\ ~outside => ub = NoUndefined
      /\ joy_msg' = joy_msg_
      /\ delivered' = 1 - delivered
      /\ samples' = Min(samples + 1, 2)
      /\ oob' = outside
      /\ terminated' = ub.crash
      /\ autorun_flag' = flag
      /\ autorun_buffer' = BufferAfterEdge(joy_msg_)
      /\ run_len' = 0
      /\ run_dx' = 0
      /\ UNCHANGED <<config, result, rejected_at, mismatched, returned>>
      /\ IF ub.crash
         THEN /\ cmd_vel_pub' = <<>>
              /\ which_map' = "none"
              /\ UNCHANGED <<speed_x_max, sent_disable_msg, pending>>
         ELSE /\ which_map' = map
              /\ speed_x_max' = speed
              /\ IF map # "disabled"
                 THEN /\ cmd_vel_pub' = <<>>
                      /\ UNCHANGED sent_disable_msg
                      /\ pending' =
                           [active |-> TRUE,
                            overtaken |-> 0,
                            speed_x_temporary |->
                              getVal(joy_msg_, axis_linear_map,
                                     scale_linear_map[map], "x", ub.axis),
                            speed_yaw_temporary |->
                              getVal(joy_msg_, axis_angular_map,
                                     scale_angular_map[map], "yaw", ub.axis),
                            whole |->
                              sendCmdVelMsg(joy_msg_, map, flag, speed, ub.axis)]
                 ELSE /\ cmd_vel_pub' = StopOnce(sent_disable_msg)
                      /\ sent_disable_msg' = TRUE
                      /\ pending' = NotPending
      /\ last_pub' = LastPublished(cmd_vel_pub', last_pub)

\* The rest of sendCmdVelMsg, and with it the end of the joyCallback
sendCmdVelMsgFinish(ub) ==
  LET outside ==
        \/ \E f \in {"y", "z"} :
             getValReadsOutside(joy_msg, axis_linear_map,
                                scale_linear_map[which_map], f)
        \/ \E f \in {"pitch", "roll"} :
             getValReadsOutside(joy_msg, axis_angular_map,
                                scale_angular_map[which_map], f)
        \/ /\ autorun_flag
           /\ getValReadsOutside(joy_msg, axis_angular_adjustment_map,
                                 scale_angular_map[which_map], "yaw")
      sent ==
        sendCmdVelMsgRest(joy_msg, which_map, autorun_flag, speed_x_max,
                          pending.speed_x_temporary,
                          pending.speed_yaw_temporary, ub.axis)
  IN  /\ ~terminated
      /\ pending.active
      /\ ~outside => ub = NoUndefined
      /\ oob' = (oob \/ outside)
      /\ terminated' = ub.crash
      /\ pending' = NotPending
      /\ UNCHANGED <<config, autorun_flag, autorun_buffer, joy_msg, which_map,
                     result, rejected_at, mismatched, returned, delivered, samples,
                     run_len, run_dx>>
      /\ IF ub.crash
         THEN UNCHANGED <<speed_x_max, sent_disable_msg, cmd_vel_pub, last_pub>>
         ELSE /\ cmd_vel_pub' = <<sent.msg>>
              /\ last_pub' = LastPublished(cmd_vel_pub', last_pub)
              /\ speed_x_max' = sent.speed_x_max
              /\ sent_disable_msg' = FALSE

----------------------------------------------------------------------------
(* Inputs *)

\* The longest buttons sequence of a sample
MaxButtons == 3

SeqsUpTo(S, n) == UNION {[1..k -> S] : k \in 0..n}

Sample(axes, buttons) == [axes |-> axes, buttons |-> buttons]

\* Raw button values: released, pressed, and a larger value of an analog button
ButtonValues == {0, 1, 2}

\* Raw values of the forward axis
ForwardValues == {-One, 0, One}

----------------------------------------------------------------------------
(* Spec: the mode selection. The node is launched with the forward axis and
   the yaw axis on axis 0 and an autorun forward scale of 0; samples carry up
   to MaxButtons buttons; the three buttons and require_enable_button are
   reconfigured while it runs. *)

LaunchMode ==
  {("axis_linear.x" :> 0) @@ ("axis_angular.yaw" :> 0)
     @@ ("scale_linear_autorun.x" :> 0)}

SamplesMode ==
  {Sample(a, b) : a \in {<<>>, <<One>>}, b \in SeqsUpTo({0, 1}, MaxButtons)}

ParametersMode ==
  {Parameter("require_enable_button", "bool", v) : v \in {0, 1}}
  \cup {Parameter("enable_button", "integer", v) : v \in {-1, 0}}
  \cup {Parameter("enable_turbo_button", "integer", v) : v \in {-1, 1}}
  \cup {Parameter("enable_autorun_button", "integer", v) : v \in {-1, 2}}

UndefinedMode == {Undefined(c, b, 0) : c \in BOOLEAN, b \in {0, 1}}

Init == \E overrides \in LaunchMode : Constructor(overrides)

Joy == \E j \in SamplesMode, ub \in UndefinedMode : joyCallback(j, ub)

Param == \E p \in ParametersMode : param_callback(<<p>>)

Next == Joy \/ Param

Spec == Init /\ [][Next]_vars

----------------------------------------------------------------------------
(* SpecRamp: the autorun ramp. The node is launched without the enable
   requirement, with the autorun button on button 0 and the forward axis on
   axis 0; samples carry at most one button and one axis; the autorun forward
   scale and the autorun button are reconfigured while it runs. *)

LaunchRamp ==
  {("require_enable_button" :> 0) @@ ("enable_autorun_button" :> 0)
     @@ ("axis_linear.x" :> 0)}

SamplesRamp ==
  {Sample(a, b) : a \in {<<>>} \cup {<<v>> : v \in ForwardValues},
                  b \in {<<>>} \cup {<<v>> : v \in ButtonValues}}

ParametersRamp ==
  {Parameter("scale_linear_autorun.x", "double", v) :
     v \in {One, One \div 2, 0, -One}}
  \cup {Parameter("enable_autorun_button", "integer", v) : v \in {-1, 0}}

UndefinedRamp == {Undefined(c, 0, 0) : c \in BOOLEAN}

InitRamp == \E overrides \in LaunchRamp : Constructor(overrides)

JoyRamp == \E j \in SamplesRamp, ub \in UndefinedRamp : joyCallback(j, ub)

ParamRamp == \E p \in ParametersRamp : param_callback(<<p>>)

NextRamp == JoyRamp \/ ParamRamp

SpecRamp == InitRamp /\ [][NextRamp]_vars

----------------------------------------------------------------------------
(* SpecCmd: the published command. The node is launched either with the
   configuration of the end-to-end scenario (defaults, forward axis on axis 1)
   or with all three buttons, five axis mappings and scale tables that differ
   from mode to mode; the adjustment axis and the autorun yaw scale are
   reconfigured while it runs. *)

Quarter == One \div 4

Half == One \div 2

LaunchScenario == "axis_linear.x" :> 1

LaunchFull ==
  ("enable_turbo_button" :> 4) @@ ("enable_autorun_button" :> 3)
    @@ ("axis_linear.x" :> 1) @@ ("axis_linear.y" :> 0)
    @@ ("axis_angular.yaw" :> 0) @@ ("axis_angular.pitch" :> 1)
    @@ ("axis_angular.roll" :> 0) @@ ("axis_angular_adjustment.yaw" :> 1)
    @@ ("scale_linear.y" :> Half) @@ ("scale_linear_turbo.y" :> One)
    @@ ("scale_linear_autorun.x" :> Quarter)
    @@ ("scale_linear_autorun.y" :> Quarter)
    @@ ("scale_angular.pitch" :> Half) @@ ("scale_angular_turbo.pitch" :> One)
    @@ ("scale_angular_autorun.pitch" :> Quarter)
    @@ ("scale_angular.roll" :> Half) @@ ("scale_angular_turbo.roll" :> One)
    @@ ("scale_angular_autorun.roll" :> Quarter)
    @@ ("scale_angular_autorun.yaw" :> Half)

LaunchCmd == {LaunchScenario, LaunchFull}

\* The sample of the end-to-end scenario: button 5 pressed, axes 0 and 0.8
ScenarioSample == Sample(<<0, (4 * One) \div 5>>, <<0, 0, 0, 0, 0, 1>>)

ButtonsCmd ==
  {<<>>, <<0, 0, 0, 0, 0, 0>>, <<0, 0, 0, 0, 0, 1>>, <<0, 0, 0, 0, 1, 0>>,
   <<0, 0, 0, 1, 0, 0>>, <<0, 0, 0, 1, 1, 1>>}

AxesCmd ==
  LET first == {-((4 * One) \div 5), 0, (4 * One) \div 5}
      second == {0, (4 * One) \div 5}
  IN  {<<>>} \cup {<<a>> : a \in first}
        \cup {<<a, b>> : a \in first, b \in second}

SamplesCmd == {Sample(a, b) : a \in AxesCmd, b \in ButtonsCmd}

ParametersCmd ==
  {Parameter("axis_angular_adjustment.yaw", "integer", v) : v \in {-1, 1}}
  \cup {Parameter("scale_angular_autorun.yaw", "double", v) : v \in {Half, -Half}}

UndefinedCmd == {Undefined(c, 0, 0) : c \in BOOLEAN}

InitCmd == \E overrides \in LaunchCmd : Constructor(overrides)

JoyCmd == \E j \in SamplesCmd, ub \in UndefinedCmd : joyCallback(j, ub)

ParamCmd == \E p \in ParametersCmd : param_callback(<<p>>)

NextCmd == JoyCmd \/ ParamCmd

SpecCmd == InitCmd /\ [][NextCmd]_vars

----------------------------------------------------------------------------
(* SpecGetVal: getVal as a function. The node is launched with its defaults;
   getVal is called with samples of up to two axes, with axis maps and scale
   maps that hold or lack the names x and yaw, and with indices on both
   sides of -1. *)

AxesGetVal == {<<>>, <<One>>, <<One, -Half>>}

IndicesGetVal == {-2, -1, 0, 1, 2}

AxisMapsGetVal == UNION {[d -> IndicesGetVal] : d \in SUBSET {"x", "yaw"}}

ScaleMapsGetVal == UNION {[d -> {Half}] : d \in SUBSET {"x", "yaw"}}

UndefinedGetVal == {Undefined(c, 0, a) : c \in BOOLEAN, a \in {0, One}}

InitGetVal == Constructor(<<>>)

NextGetVal ==
  \E a \in AxesGetVal, axis_map \in AxisMapsGetVal,
     scale_map \in ScaleMapsGetVal, fieldname \in {"x", "yaw"},
     ub \in UndefinedGetVal :
    getValCall(Sample(a, <<>>), axis_map, scale_map, fieldname, ub)

SpecGetVal == InitGetVal /\ [][NextGetVal]_vars

----------------------------------------------------------------------------
(* SpecParam: batches of parameters. The node is launched without the enable
   requirement, with the autorun button on button 0 and the forward axis on
   axis 0; it is given batches of up to MaxBatch parameters, well typed and
   ill typed, among them one of a name the node does not declare, and between
   them samples that engage autorun and move the ramp. *)

\* The longest batch of parameters
MaxBatch == 2

LaunchParam ==
  {("require_enable_button" :> 0) @@ ("enable_autorun_button" :> 0)
     @@ ("axis_linear.x" :> 0)}

SamplesParam ==
  {Sample(<<One>>, <<b>>) : b \in {0, 1}} \cup {Sample(<<>>, <<>>)}

ParametersParam ==
  {Parameter("require_enable_button", "integer", 1),
   Parameter("enable_button", "integer", 0),
   Parameter("enable_button", "double", One),
   Parameter("scale_linear_autorun.x", "double", Half),
   Parameter("scale_linear_autorun.x", "integer", 2),
   Parameter("use_sim_time", "bool", 1)}

BatchesParam == SeqsUpTo(ParametersParam, MaxBatch) \ {<<>>}

UndefinedParam == {Undefined(c, 0, 0) : c \in BOOLEAN}

InitParam == \E overrides \in LaunchParam : Constructor(overrides)

JoyParam == \E j \in SamplesParam, ub \in UndefinedParam : joyCallback(j, ub)

ParamBatch == \E parameters \in BatchesParam : param_callback(parameters)

NextParam == JoyParam \/ ParamBatch

SpecParam == InitParam /\ [][NextParam]_vars

----------------------------------------------------------------------------
(* SpecSnap: updates that overtake a sample. The node is launched without
   the enable requirement, with the autorun button on button 0, the forward
   axis on axis 0 and both yaw axes on axis 1; the autorun forward scale and
   the autorun yaw scale are reconfigured while it runs, also while a
   joyCallback is inside sendCmdVelMsg. *)

LaunchSnap ==
  {("require_enable_button" :> 0) @@ ("enable_autorun_button" :> 0)
     @@ ("axis_linear.x" :> 0) @@ ("axis_angular.yaw" :> 1)
     @@ ("axis_angular_adjustment.yaw" :> 1)}

SamplesSnap ==
  {Sample(<<x, yaw>>, <<b>>) : x \in {0, One}, yaw \in {0, Quarter}, b \in {0, 1}}

ParametersSnap ==
  {Parameter("scale_linear_autorun.x", "double", v) : v \in {One, Half}}
  \cup {Parameter("scale_angular_autorun.yaw", "double", v) : v \in {One, Half}}

UndefinedSnap == {Undefined(c, 0, 0) : c \in BOOLEAN}

InitSnap == \E overrides \in LaunchSnap : Constructor(overrides)

EnterSnap ==
  \E j \in SamplesSnap, ub \in UndefinedSnap : joyCallbackEnter(j, ub)

FinishSnap == \E ub \in UndefinedSnap : sendCmdVelMsgFinish(ub)

ParamSnap == \E p \in ParametersSnap : param_callback(<<p>>)

NextSnap == EnterSnap \/ FinishSnap \/ ParamSnap

SpecSnap == InitSnap /\ [][NextSnap]_vars

----------------------------------------------------------------------------
(* SpecFixed: a configuration that never changes. The node is launched
   without the enable requirement, with the autorun button on button 0, the
   forward axis on axis 0 and a positive, zero or negative autorun forward
   scale; no parameter is set afterwards. *)

LaunchFixed ==
  {("require_enable_button" :> 0) @@ ("enable_autorun_button" :> 0)
     @@ ("axis_linear.x" :> 0) @@ ("scale_linear_autorun.x" :> v) :
   v \in {One, 0, -One}}

SamplesFixed ==
  {Sample(a, b) : a \in {<<>>} \cup {<<v>> : v \in ForwardValues},
                  b \in {<<>>} \cup {<<v>> : v \in ButtonValues}}

UndefinedFixed == {Undefined(c, 0, 0) : c \in BOOLEAN}

InitFixed == \E overrides \in LaunchFixed : Constructor(overrides)

NextFixed ==
  \E j \in SamplesFixed, ub \in UndefinedFixed : joyCallback(j, ub)

SpecFixed == InitFixed /\ [][NextFixed]_vars

----------------------------------------------------------------------------
(* SpecLimit: the two autorun limits. The node is launched without the
   enable requirement, with the autorun button on button 0, the forward axis
   on axis 0 and both yaw axes on axis 1; the autorun forward scale and the
   autorun yaw scale are set to positive, zero and negative values while it
   runs. *)

LaunchLimit == LaunchSnap

SamplesLimit ==
  {Sample(<<x, yaw>>, <<b>>) : x \in {0, One}, yaw \in {-One, Quarter},
                               b \in {0, 1}}
  \cup {Sample(<<>>, <<>>)}

ParametersLimit ==
  {Parameter("scale_linear_autorun.x", "double", v) : v \in {One, 0, -One}}
  \cup {Parameter("scale_angular_autorun.yaw", "double", v) :
          v \in {One, 0, -Half}}

UndefinedLimit == {Undefined(c, 0, 0) : c \in BOOLEAN}

InitLimit == \E overrides \in LaunchLimit : Constructor(overrides)

JoyLimit == \E j \in SamplesLimit, ub \in UndefinedLimit : joyCallback(j, ub)

ParamLimit == \E p \in ParametersLimit : param_callback(<<p>>)

NextLimit == JoyLimit \/ ParamLimit

SpecLimit == InitLimit /\ [][NextLimit]_vars

----------------------------------------------------------------------------
(* Properties *)

\* A step in which joyCallback was called with a sample
Delivered == delivered' # delivered

\* A step in which joyCallback ran to its end
Sampled == Delivered /\ ~terminated'

\* Index i is an index of the sequence
InRange(seq, i) == i >= 0 /\ i < Len(seq)

\* Button i of the sample is configured, in range and pressed
Pressed(joy_msg_, i) ==
  InRange(joy_msg_.buttons, i) /\ joy_msg_.buttons[i + 1] # 0

\* v limited from above by hi, then from below by lo
ClampTo(v, lo, hi) == Max(Min(v, hi), lo)

\* The SampleReader of the specification: 0 unless the name is mapped to an
\* index of the sample's axes and has a scale, else the scaled axis value
Read(joy_msg_, axis_map, scale_map, name) ==
  IF /\ name \in DOMAIN axis_map
     /\ name \in DOMAIN scale_map
     /\ InRange(joy_msg_.axes, axis_map[name])
  THEN (joy_msg_.axes[axis_map[name] + 1] * scale_map[name]) \div One
  ELSE 0

\* The configured autorun limits
XLimit == scale_linear_map["autorun"]["x"]

YawLimit == scale_angular_map["autorun"]["yaw"]

\* C3 as stated: in every reachable state speed_x_max lies within
\* [-limit, +limit] for the currently configured autorun forward scale.
C3_RampBound == -XLimit <= speed_x_max /\ speed_x_max <= XLimit

\* C3 amended: after every processed sample the magnitude of speed_x_max is
\* at most the magnitude of the autorun forward limit of the configuration
\* the sample was processed with.
C3_RampBoundAfterSample ==
  [][Sampled => Abs(speed_x_max') <= Abs(XLimit')]_vars

\* An autorun sample has driven the ramp down to the negative limit
C3_Witness ==
  /\ which_map = "autorun"
  /\ XLimit > 0
  /\ speed_x_max = -XLimit
  /\ joy_msg.axes = <<-One>>

\* C4: on a sample whose autorun button is configured and in range,
\* autorun_flag flips exactly when the raw value is greater than
\* autorun_buffer, and the raw value is stored in autorun_buffer either way.
C4_EdgeDetection ==
  [][(Delivered /\ InRange(joy_msg'.buttons, enable_autorun_button)) =>
       LET value == joy_msg'.buttons[enable_autorun_button + 1]
       IN  /\ (autorun_flag' # autorun_flag) <=> (value > autorun_buffer)
           /\ autorun_buffer' = value]_vars

\* The button has gone from 1 to 2 or from 0 to 2 and is stored
C4_Witness ==
  /\ InRange(joy_msg.buttons, enable_autorun_button)
  /\ joy_msg.buttons[enable_autorun_button + 1] = 2
  /\ autorun_buffer = 2
  /\ which_map = "autorun"

\* C6 as stated: from speed_x_max = 0 and with unchanged configuration,
\* run_len consecutive autorun samples of scaled forward input run_dx leave
\* min(N*d/10, limit) for d >= 0 and max(N*d/10, -limit) for d < 0.
C6_RampFormula ==
  run_len > 0 =>
    speed_x_max = IF run_dx >= 0
                  THEN Min(Tenth(run_len * run_dx), XLimit)
                  ELSE Max(Tenth(run_len * run_dx), -XLimit)

\* C6 amended: the same for a limit >= 0; for a limit < 0 every autorun
\* sample leaves speed_x_max = -limit.
C6_RampFormulaSigned ==
  run_len > 0 =>
    speed_x_max = IF XLimit < 0 THEN -XLimit
                  ELSE IF run_dx >= 0
                  THEN Min(Tenth(run_len * run_dx), XLimit)
                  ELSE Max(Tenth(run_len * run_dx), -XLimit)

\* The eleventh sample with forward axis 1.0 and scale 1.0: the ramp is 1.0
C6_Witness ==
  /\ run_len = 11
  /\ run_dx = One
  /\ XLimit = One
  /\ joy_msg.axes = <<One>>
  /\ speed_x_max = One

\* C7: the first autorun sample after autorun_flag was false publishes
\* linear.x = clamp(dx / 10, -limit, +limit), whatever the ramp was in the
\* previous autorun interval.
C7_RampReset ==
  [][(Delivered /\ ~autorun_flag /\ autorun_flag') =>
       /\ Len(cmd_vel_pub') = 1
       /\ cmd_vel_pub'[1].linear.x =
            ClampTo(Tenth(Read(joy_msg', axis_linear_map,
                               scale_linear_map["autorun"], "x")),
                    -XLimit, XLimit)]_vars

\* Autorun was engaged by this sample, with a forward input, and the ramp
\* holds one tenth of it
C7_Witness ==
  /\ autorun_flag
  /\ run_len = 1
  /\ run_dx = One \div 2
  /\ speed_x_max = Tenth(run_dx)
  /\ cmd_vel_pub = <<Twist(speed_x_max, 0, 0, 0, 0, 0)>>

\* C1: in a run of consecutive samples that resolve to Disabled, following a
\* sample that published a command in Normal, Turbo or Autorun mode, the first
\* sample publishes exactly one all-zero command and every later sample of
\* the run publishes nothing.
C1_StopOnce ==
  [][(Delivered /\ which_map' = "disabled") =>
       /\ which_map \in MapNames => cmd_vel_pub' = <<ZeroTwist>>
       /\ which_map = "disabled" => cmd_vel_pub' = <<>>]_vars

\* A later sample of a disabled run: it resolved to Disabled and published nothing
C1_Witness ==
  which_map = "disabled" /\ cmd_vel_pub = <<>> /\ sent_disable_msg

\* The mode the priority order autorun > turbo > normal > disabled gives
PriorityMode(joy_msg_, active) ==
  IF active THEN "autorun"
  ELSE IF Pressed(joy_msg_, enable_turbo_button) THEN "turbo"
  ELSE IF ~require_enable_button \/ Pressed(joy_msg_, enable_button) THEN "normal"
  ELSE "disabled"

\* C2: every sample resolves to the mode of the priority order: Autorun if
\* autorun is active after the edge detection, else Turbo if the turbo button
\* is configured, in range and pressed, else Normal if require_enable_button
\* is false or the enable button is in range and pressed, else Disabled.
C2_ModePriority ==
  [][Sampled => which_map' = PriorityMode(joy_msg', autorun_flag')]_vars

\* C5: processing a sample never reads a button or an axis outside the
\* sample's sequences, and never ends the process.
C5_NoOutsideRead == ~oob /\ ~terminated

\* C8: every autorun sample publishes angular.z = clamp(yaw_primary +
\* yaw_adjust, -yaw_limit, +yaw_limit), both read with the autorun angular
\* scale, yaw_limit being scale_angular_autorun.yaw; the value depends on this
\* sample alone.
C8_AutorunYaw ==
  [][(Delivered /\ which_map' = "autorun") =>
       /\ Len(cmd_vel_pub') = 1
       /\ cmd_vel_pub'[1].angular.z =
            ClampTo(Read(joy_msg', axis_angular_map,
                         scale_angular_map["autorun"], "yaw")
                    + Read(joy_msg', axis_angular_adjustment_map,
                           scale_angular_map["autorun"], "yaw"),
                    -YawLimit, YawLimit)]_vars

\* An autorun sample whose two yaw sources add up to more than the limit
\* published exactly the limit
C8_Witness ==
  /\ which_map = "autorun"
  /\ YawLimit > 0
  /\ Read(joy_msg, axis_angular_map, scale_angular_map["autorun"], "yaw") > 0
  /\ Read(joy_msg, axis_angular_adjustment_map,
          scale_angular_map["autorun"], "yaw") > 0
  /\ Read(joy_msg, axis_angular_map, scale_angular_map["autorun"], "yaw")
       + Read(joy_msg, axis_angular_adjustment_map,
              scale_angular_map["autorun"], "yaw") > YawLimit
  /\ cmd_vel_pub[1].angular.z = YawLimit

\* C9: every sample processed while autorun_flag is true publishes exactly
\* one command, whatever the enable and turbo buttons are; its linear.x is the
\* updated speed_x_max, its linear.y, linear.z, angular.y (pitch) and
\* angular.x (roll) are read with the autorun scale tables, and
\* sent_disable_msg is false afterwards.
C9_AutorunCommand ==
  [][(Delivered /\ autorun_flag') =>
       /\ Len(cmd_vel_pub') = 1
       /\ cmd_vel_pub'[1].linear.x = speed_x_max'
       /\ cmd_vel_pub'[1].linear.y =
            Read(joy_msg', axis_linear_map, scale_linear_map["autorun"], "y")
       /\ cmd_vel_pub'[1].linear.z =
            Read(joy_msg', axis_linear_map, scale_linear_map["autorun"], "z")
       /\ cmd_vel_pub'[1].angular.y =
            Read(joy_msg', axis_angular_map, scale_angular_map["autorun"], "pitch")
       /\ cmd_vel_pub'[1].angular.x =
            Read(joy_msg', axis_angular_map, scale_angular_map["autorun"], "roll")
       /\ ~sent_disable_msg']_vars

\* C10: every sample that resolves to Normal or Turbo publishes exactly one
\* command whose six fields are the reader's values under that mode's scale
\* tables (linear from axis_linear, angular.z = yaw, angular.y = pitch,
\* angular.x = roll from axis_angular), and sent_disable_msg is false
\* afterwards.
C10_DirectCommand ==
  [][(Delivered /\ which_map' \in {"normal", "turbo"}) =>
       /\ cmd_vel_pub' =
            <<Twist(Read(joy_msg', axis_linear_map, scale_linear_map[which_map'], "x"),
                    Read(joy_msg', axis_linear_map, scale_linear_map[which_map'], "y"),
                    Read(joy_msg', axis_linear_map, scale_linear_map[which_map'], "z"),
                    Read(joy_msg', axis_angular_map, scale_angular_map[which_map'], "roll"),
                    Read(joy_msg', axis_angular_map, scale_angular_map[which_map'], "pitch"),
                    Read(joy_msg', axis_angular_map, scale_angular_map[which_map'], "yaw"))>>
       /\ ~sent_disable_msg']_vars

\* The end-to-end scenario: enable_button = 5, axis_linear.x = 1,
\* scale_linear.x = 0.5, buttons [0,0,0,0,0,1], axes [0, 0.8] gave
\* linear.x = 0.4 and 0 elsewhere
C10_Witness ==
  /\ enable_button = 5
  /\ axis_linear_map["x"] = 1
  /\ scale_linear_map["normal"]["x"] = One \div 2
  /\ joy_msg = ScenarioSample
  /\ which_map = "normal"
  /\ cmd_vel_pub = <<Twist((2 * One) \div 5, 0, 0, 0, 0, 0)>>

\* C11: every getVal call returns, and returns 0 when the name is absent from
\* the axis map, is mapped to -1, is absent from the scale map, or the sample's
\* axes do not contain the mapped index; in every other case it returns
\* axes[index] * scale.
C11_SampleReader ==
  returned.called =>
    /\ ~terminated
    /\ returned.value = Read(returned.joy_msg, returned.axis_map,
                             returned.scale_map, returned.fieldname)

\* C12: on a sample with autorun not active and the turbo condition false,
\* Normal is reached through the enable button only if that button is
\* configured, in range and pressed; with require_enable_button true and
\* enable_button = -1 every such sample resolves to Disabled.
C12_UnconfiguredEnable ==
  [][(/\ Delivered
      /\ ~autorun_flag'
      /\ ~Pressed(joy_msg', enable_turbo_button)
      /\ require_enable_button) =>
       /\ which_map' = "normal" => Pressed(joy_msg', enable_button)
       /\ enable_button = -1 => which_map' = "disabled"]_vars

\* C13: a batch in which any parameter has a type other than the one expected
\* for its name is rejected as a whole: the result is unsuccessful, its reason
\* names an ill-typed parameter of the batch and the type expected for it,
\* and no configuration member changes, the members named by well-typed
\* parameters in front of the ill-typed one included.
C13_AtomicRejection ==
  [][(~Delivered /\ mismatched' # {}) =>
       /\ ~result'.successful
       /\ \E name \in mismatched' :
            result'.reason = <<ExpectedType(name), name>>
       /\ UNCHANGED config]_vars

\* A batch was rejected at its second parameter, so its first was well
\* typed, and enable_button and the autorun forward scale, which the
\* well-typed parameters name, still have their launch values
C13_Witness ==
  /\ ~result.successful
  /\ rejected_at = 2
  /\ mismatched = {"scale_linear_autorun.x"}
  /\ result.reason = <<"double", "scale_linear_autorun.x">>
  /\ enable_button = 5
  /\ XLimit = One

\* C14: when a configuration update comes between the statements of a
\* joyCallback, the command that callback publishes and the speed_x_max it
\* leaves are computed from one configuration: the one in force when the
\* sample arrived or the one in force when the command is published.
C14_Snapshot ==
  [][(/\ pending.active
      /\ ~pending'.active
      /\ ~terminated'
      /\ pending.overtaken <= 1) =>
       LET now == sendCmdVelMsg(joy_msg, which_map, autorun_flag, speed_x_max, 0)
       IN  \/ /\ cmd_vel_pub' = <<pending.whole.msg>>
              /\ speed_x_max' = pending.whole.speed_x_max
           \/ /\ cmd_vel_pub' = <<now.msg>>
              /\ speed_x_max' = now.speed_x_max]_vars

\* C15: in every reachable state, sent_disable_msg is true only if the last
\* command published was all-zero and the last sample took the else branch,
\* so that no sample since that command resolved to Normal, Turbo or
\* Autorun.
C15_StopSent ==
  sent_disable_msg =>
    /\ last_pub = "zero"
    /\ which_map \in {"disabled", "none"}
    /\ which_map = "none" => terminated

\* A sample on which the required enable button is not pressed has just
\* published the stop
C15_Witness ==
  /\ sent_disable_msg
  /\ which_map = "disabled"
  /\ cmd_vel_pub = <<ZeroTwist>>
  /\ last_pub = "zero"
  /\ require_enable_button
  /\ ~Pressed(joy_msg, enable_button)

\* C16: between samples, in every state of the running node, autorun_flag
\* false implies speed_x_max = 0; so after every sample processed in Turbo,
\* Normal or Disabled mode the ramp is 0.
C16_RampZero == (~terminated /\ ~autorun_flag) => speed_x_max = 0

\* The sample that ended an autorun interval (the button went up to 2 while
\* autorun was active) carried a forward deflection, was published in
\* Normal mode, and left the ramp at 0
C16_Witness ==
  /\ ~terminated
  /\ ~autorun_flag
  /\ autorun_buffer = 2
  /\ joy_msg = Sample(<<One>>, <<2>>)
  /\ which_map = "normal"
  /\ cmd_vel_pub = <<Twist(One \div 2, 0, 0, 0, 0, 0)>>
  /\ speed_x_max = 0

\* C17 as stated: with a configuration that never changes, a sample that
\* resolves to Autorun and whose scaled forward input is 0 leaves speed_x_max
\* at its value before the sample and publishes that value as linear.x.
C17_RampPersists ==
  [][(/\ Delivered
      /\ which_map' = "autorun"
      /\ Read(joy_msg', axis_linear_map, scale_linear_map["autorun"], "x") = 0) =>
       /\ speed_x_max' = speed_x_max
       /\ Len(cmd_vel_pub') = 1
       /\ cmd_vel_pub'[1].linear.x = speed_x_max]_vars

\* C17 amended: the same for an autorun forward scale >= 0; for a negative
\* scale such a sample leaves and publishes -scale, whatever speed_x_max was
\* before.
C17_RampPersistsSigned ==
  [][(/\ Delivered
      /\ which_map' = "autorun"
      /\ Read(joy_msg', axis_linear_map, scale_linear_map["autorun"], "x") = 0) =>
       LET kept == IF XLimit >= 0 THEN speed_x_max ELSE -XLimit
       IN  /\ speed_x_max' = kept
           /\ Len(cmd_vel_pub') = 1
           /\ cmd_vel_pub'[1].linear.x = kept]_vars

\* Three deflected samples have set the ramp to 0.3 and an autorun sample
\* with the forward axis at 0 has published 0.3
C17_Witness ==
  /\ which_map = "autorun"
  /\ XLimit = One
  /\ joy_msg.axes = <<0>>
  /\ speed_x_max = 3 * (One \div RampDivisor)
  /\ cmd_vel_pub = <<Twist(speed_x_max, 0, 0, 0, 0, 0)>>

\* C18: a batch of parameters, accepted or rejected, leaves autorun_flag,
\* autorun_buffer, speed_x_max and sent_disable_msg as they are and publishes
\* no command; these four members change only in a step that processes a
\* sample.
C18_ParamFrame ==
  [][~Delivered => UNCHANGED <<controller, cmd_vel_pub, last_pub>>]_vars

\* A batch that halves the autorun forward scale was accepted while autorun
\* was active with the ramp at 1.0, and the ramp is still 1.0
C18_Witness ==
  /\ result.successful
  /\ autorun_flag
  /\ which_map = "autorun"
  /\ XLimit = Half
  /\ speed_x_max = One
  /\ autorun_buffer = 1
  /\ ~sent_disable_msg

\* C19: a sample on which the autorun button is unconfigured or out of range
\* leaves autorun_flag and autorun_buffer unchanged; and when
\* enable_autorun_button is negative while autorun_flag is true, every
\* sample resolves to Autorun and publishes a command, whatever its buttons
\* are.
C19_AutorunEdgeOnly ==
  [][(Delivered /\ ~InRange(joy_msg'.buttons, enable_autorun_button)) =>
       /\ UNCHANGED <<autorun_flag, autorun_buffer>>
       /\ (enable_autorun_button < 0 /\ autorun_flag) =>
            /\ which_map' = "autorun"
            /\ Len(cmd_vel_pub') = 1]_vars

\* C20: every sample that resolves to Autorun publishes a command whose
\* linear.x has magnitude at most |scale_linear_autorun.x| and whose
\* angular.z has magnitude at most |scale_angular_autorun.yaw|, for the
\* scales in force at that sample: changed since the previous sample, zero
\* or negative.
C20_AutorunLimits ==
  [][(Delivered /\ which_map' = "autorun") =>
       /\ Len(cmd_vel_pub') = 1
       /\ Abs(cmd_vel_pub'[1].linear.x) <= Abs(XLimit)
       /\ Abs(cmd_vel_pub'[1].angular.z) <= Abs(YawLimit)]_vars

\* Under two negative scales an autorun sample whose yaw sources add up to
\* -1.0 published both fields at the magnitude of their limits
C20_Witness ==
  /\ which_map = "autorun"
  /\ XLimit = -One
  /\ YawLimit = -Half
  /\ joy_msg.axes = <<0, -One>>
  /\ cmd_vel_pub = <<Twist(One, 0, 0, 0, 0, Half)>>

----------------------------------------------------------------------------
\* C21: before the first sample is delivered the controller holds what the
\* constructor left, also after parameter updates: autorun_flag = FALSE,
\* autorun_buffer = 0, speed_x_max = 0, sent_disable_msg = FALSE. So a first
\* sample whose autorun button is configured, present and positive is a
\* rising edge: it sets autorun_flag and, where the callback returns, the
\* autorun branch was taken. And a first sample that takes the else branch publishes
\* one all-zero command and sets sent_disable_msg.
C21_FirstSample ==
  [][samples = 0 =>
       /\ controller = <<FALSE, 0, 0, FALSE>>
       /\ Delivered =>
            /\ (/\ InRange(joy_msg'.buttons, enable_autorun_button)
                /\ joy_msg'.buttons[enable_autorun_button + 1] > 0)
               => /\ autorun_flag'
                  /\ autorun_buffer' = joy_msg'.buttons[enable_autorun_button + 1]
                  /\ ~terminated' => which_map' = "autorun"
            /\ which_map' = "disabled"
               => /\ cmd_vel_pub' = <<ZeroTwist>>
                  /\ sent_disable_msg']_vars

\* The autorun button was set to button 2 before any sample, and the first
\* sample came with that button held: autorun is engaged and the sample
\* published the autorun command
C21_Witness ==
  /\ samples = 1
  /\ enable_autorun_button = 2
  /\ joy_msg.buttons = <<0, 0, 1>>
  /\ autorun_flag
  /\ autorun_buffer = 1
  /\ which_map = "autorun"
  /\ Len(cmd_vel_pub) = 1

====
